---- MODULE Spec2Model ----
(***************************************************************************)
(* The frame loop of src/main.rs: the closure handed to event_loop.run     *)
(* (lines 122-186) with the state it captures, and                         *)
(* window_size_dependent_setup (lines 190-212).                            *)
(*                                                                         *)
(* The swapchain, the GPU futures and the window are external objects; the *)
(* results of their calls (recreate, acquire_next_image, then_execute,     *)
(* then_signal_fence_and_flush) are inputs drawn from the result types the *)
(* closure matches on.  The event loop hands events to the closure one at  *)
(* a time, in batches that end with MainEventsCleared, and looks at the    *)
(* control flow once the batch is over.                                    *)
(***************************************************************************)
EXTENDS Integers, Sequences, FiniteSets, TLC

\* ------------------------------------------------------------------ bounds
MaxGen == 2            \* recreations of the swapchain that may succeed
MaxSubmits == 6        \* successful submissions in a row
MaxQueued == 2         \* submissions whose GPU work is followed

\* -------------------------------------------------------------- constants
MinImageCount == 2     \* surface_cap.min_image_count

\* The drawable sizes the window takes; <<0, 0>> is a minimised window.
Extents == { <<800, 600>>, <<400, 300>>, <<0, 0>> }
\* The image counts a swapchain is created with (at least min_image_count).
ImageCounts == { MinImageCount, MinImageCount + 1 }

RecreateResults == { "Ok", "ImageExtentNotSupported", "OtherError" }
AcquireResults == { "Ok", "OutOfDate", "OtherError" }
ExecResults == { "Ok", "Err" }
FlushResults == { "Ok", "OutOfDate", "OtherError" }

VARIABLES
    control_flow,         \* the event loop's ControlFlow: "Poll" or "Exit"
    status,               \* the process: "running", "exited" or "panicked"
    phase,                \* position in the event batch: "events" or "cleared"
    inner_size,           \* window.window().inner_size()
    swapchain,            \* [gen, extent, count]: the current swapchain
    framebuffers,         \* sequence of framebuffers, one per swapchain image
    viewport,             \* [origin, dimensions, depth_range]
    recreate_swapchain,   \* the resize flag
    previous_frame_end,   \* Option<Box<dyn GpuFuture>>: <<>> is None, <<t>> is Some(t)
    calls,                \* the calls made by the last closure invocation, in order
    outcome,              \* how the last MainEventsCleared invocation ended
    last_recreate,        \* the swapchain.recreate call of the last tick
    last_acquire,         \* the acquire_next_image call of the last tick
    last_record,          \* the command recording of the last tick
    last_submit,          \* the submission of the last tick
    gpu                   \* the GPU queue: the submissions flushed to it

vars == << control_flow, status, phase, inner_size, swapchain, framebuffers,
           viewport, recreate_swapchain, previous_frame_end,
           calls, outcome, last_recreate, last_acquire, last_record,
           last_submit, gpu >>

\* ----------------------------------------------------------------- values
RECURSIVE Pow2(_)
Pow2(n) == IF n = 0 THEN 1 ELSE 2 * Pow2(n - 1)

RECURSIVE Log2(_)
Log2(n) == IF n < 2 THEN 0 ELSE 1 + Log2(n \div 2)

\* `n as f32` for a u32 n: exact up to 24 bits, else round to nearest even.
as_f32(n) ==
    IF n < Pow2(24) THEN n
    ELSE LET ulp == Pow2(Log2(n) - 23)
             q == n \div ulp
             r == n % ulp
         IN  IF 2 * r > ulp \/ (2 * r = ulp /\ q % 2 = 1)
             THEN (q + 1) * ulp
             ELSE q * ulp

\* vulkano::sync::now(dev).boxed(): a future that is already complete.
now == [kind |-> "now", id |-> 0]

\* The fence future of a successful then_signal_fence_and_flush on a future
\* that joined on `joined`: a new future, one further down the chain.
FenceFuture(joined) ==
    [kind |-> "fence", id |-> joined.id + 1]

\* The images of a swapchain, in index order.
Images(sc) ==
    [i \in 1..sc.count |-> [gen |-> sc.gen, index |-> i - 1, extent |-> sc.extent]]

InitialViewport ==
    [origin |-> <<0, 0>>, dimensions |-> <<0, 0>>, depth_range |-> <<0, 1>>]

\* window_size_dependent_setup adding the extent to the dimensions it finds.
window_size_dependent_setup_accumulating(images, vp) ==
    LET dimensions == images[1].extent
    IN  [viewport |-> [vp EXCEPT !.dimensions =
                          << @[1] + as_f32(dimensions[1]),
                             @[2] + as_f32(dimensions[2]) >>],
         framebuffers |-> [i \in DOMAIN images |-> [attachment |-> images[i]]]]

\* window_size_dependent_setup leaving the viewport alone.
window_size_dependent_setup_viewport_kept(images, vp) ==
    [viewport |-> vp,
     framebuffers |-> [i \in DOMAIN images |-> [attachment |-> images[i]]]]

\* window_size_dependent_setup building a framebuffer for the first image only.
window_size_dependent_setup_first_only(images, vp) ==
    LET dimensions == images[1].extent
    IN  [viewport |-> [vp EXCEPT !.dimensions =
                          << as_f32(dimensions[1]), as_f32(dimensions[2]) >>],
         framebuffers |-> [i \in { 1 } |-> [attachment |-> images[i]]]]

\* window_size_dependent_setup: sets viewport.dimensions from images[0] and
\* returns one framebuffer per image, each attached to a view of that image.
window_size_dependent_setup(images, vp) ==
    LET dimensions == images[1].extent
    IN  [viewport |-> [vp EXCEPT !.dimensions =
                          << as_f32(dimensions[1]), as_f32(dimensions[2]) >>],
         framebuffers |-> [i \in DOMAIN images |-> [attachment |-> images[i]]]]

\* What the observers hold for a tick that made no such call.
NoRecreate == [result |-> "None", extent |-> <<0, 0>>, count |-> 0]
NoAcquire == [gen |-> -1, flagged |-> FALSE, result |-> "None", suboptimal |-> FALSE]
NoRecord == [framebuffer |-> [attachment |-> [gen |-> -1, index |-> 0,
                                             extent |-> <<0, 0>>]],
             swapchain_gen |-> -1, image_num |-> 0, viewport |-> InitialViewport]
NoSubmit == [joined |-> now, acquire |-> [gen |-> -1, index |-> 0], image_num |-> 0,
             swapchain_gen |-> -1, result |-> "None"]

\* ------------------------------------------------- the closure's local state
\* The captured variables as one MainEventsCleared invocation sees them, with
\* `returned` set once the invocation has left the closure (by return or panic).
Captured ==
    [swapchain |-> swapchain, framebuffers |-> framebuffers, viewport |-> viewport,
     recreate_swapchain |-> recreate_swapchain,
     previous_frame_end |-> previous_frame_end,
     calls |-> << >>, outcome |-> "Running", returned |-> FALSE, panicked |-> FALSE,
     image_num |-> 0, acquire_future |-> [gen |-> -1, index |-> 0],
     last_recreate |-> NoRecreate, last_acquire |-> NoAcquire,
     last_record |-> NoRecord, last_submit |-> NoSubmit]

\* panic!, or a failed unwrap / index: the process ends inside the closure.
Panic(s, why) ==
    [s EXCEPT !.outcome = why, !.returned = TRUE, !.panicked = TRUE]

\* `return` from the closure.
Return(s, why) ==
    [s EXCEPT !.outcome = why, !.returned = TRUE]

Call(s, name) == [s EXCEPT !.calls = Append(@, name)]

\* Option::take with the previous future left out of the join.
take_bypassed(opt) == [value |-> now, slot |-> << >>]

\* Option::take: the value moved out, and None left in the slot.
take(opt) == [value |-> Head(opt), slot |-> << >>]

\* previous_frame_end.as_mut().unwrap().cleanup_finished()
CleanupFinished(s) ==
    IF s.previous_frame_end = << >>
    THEN Panic(s, "UnwrapNone")
    ELSE Call(s, "cleanup_finished")

\* The ImageExtentNotSupported arm with the flag dropped.
extent_not_supported_cleared(c) ==
    Return([c EXCEPT !.recreate_swapchain = FALSE], "ExtentNotSupported")

\* The ImageExtentNotSupported arm without its return.
extent_not_supported_continued(c) == c

\* Err(SwapchainCreationError::ImageExtentNotSupported {..}) => return
extent_not_supported(c) == Return(c, "ExtentNotSupported")

\* The assignments after a recreate with the flag left as it was.
replace_swapchain_flag_kept(c, new_swapchain, setup) ==
    [c EXCEPT !.swapchain = new_swapchain,
              !.framebuffers = setup.framebuffers,
              !.viewport = setup.viewport]

\* The assignments after a recreate with the old framebuffers kept.
replace_swapchain_stale(c, new_swapchain, setup) ==
    [c EXCEPT !.swapchain = new_swapchain,
              !.viewport = setup.viewport,
              !.recreate_swapchain = FALSE]

\* swapchain = new_swapchain; framebuffers = ..; recreate_swapchain = false;
replace_swapchain(c, new_swapchain, setup) ==
    [c EXCEPT !.swapchain = new_swapchain,
              !.framebuffers = setup.framebuffers,
              !.viewport = setup.viewport,
              !.recreate_swapchain = FALSE]

\* The create info of the old swapchain reused as it is.
image_extent_kept(sc) == sc.extent

\* image_extent: window.window().inner_size().into(), ..swapchain.create_info()
image_extent(sc) == inner_size

\* Any other recreate error taken for a skipped tick.
recreate_failed_skipped(c) == Return(c, "RecreatePanic")

\* Err(e) => panic!("Failed to recreate swapchain: {:?}", e)
recreate_failed(c) == Panic(c, "RecreatePanic")

\* if recreate_swapchain { match swapchain.recreate(..) { .. } .. }
Recreate(s, rc, n) ==
    IF s.returned \/ ~s.recreate_swapchain THEN s
    ELSE LET c == [Call(s, "recreate") EXCEPT
                      !.last_recreate = [result |-> rc,
                                         extent |-> s.swapchain.extent,
                                         count |-> Len(s.framebuffers)]]
         IN  CASE rc = "ImageExtentNotSupported" -> extent_not_supported(c)
               [] rc = "OtherError" -> recreate_failed(c)
               [] rc = "Ok" ->
                    LET new_swapchain == [gen |-> s.swapchain.gen + 1,
                                          extent |-> image_extent(s.swapchain),
                                          count |-> n]
                        setup == window_size_dependent_setup(Images(new_swapchain),
                                                             s.viewport)
                    IN  replace_swapchain(Call(c, "window_size_dependent_setup"),
                                          new_swapchain, setup)

\* The AcquireError::OutOfDate arm without the flag.
acquire_out_of_date_unflagged(c) == Return(c, "AcquireOutOfDate")

\* Err(AcquireError::OutOfDate) => { recreate_swapchain = true; return; }
acquire_out_of_date(c) ==
    Return([c EXCEPT !.recreate_swapchain = TRUE], "AcquireOutOfDate")

\* The suboptimal result ignored.
if_suboptimal_ignored(c, suboptimal) == c

\* if suboptimal { recreate_swapchain = true; }
if_suboptimal(c, suboptimal) ==
    [c EXCEPT !.recreate_swapchain = @ \/ suboptimal]

\* Err(e) => panic!("Failed to acquire next image: {:?}", e)
acquire_failed(c) == Panic(c, "AcquirePanic")

\* match acquire_next_image(swapchain.clone(), None) { .. }; if suboptimal { .. }
Acquire(s, aq, i, suboptimal) ==
    IF s.returned THEN s
    ELSE LET c == [Call(s, "acquire_next_image") EXCEPT
                      !.last_acquire = [gen |-> s.swapchain.gen,
                                        flagged |-> s.recreate_swapchain,
                                        result |-> aq,
                                        suboptimal |-> aq = "Ok" /\ suboptimal]]
         IN  CASE aq = "OutOfDate" -> acquire_out_of_date(c)
               [] aq = "OtherError" -> acquire_failed(c)
               [] aq = "Ok" ->
                    if_suboptimal(
                        [c EXCEPT !.image_num = i,
                                  !.acquire_future = [gen |-> s.swapchain.gen,
                                                      index |-> i]],
                        suboptimal)

\* AutoCommandBufferBuilder::primary(..) .. builder.build(): the commands are
\* recorded against framebuffers[image_num] with the current viewport.
Record(s, bd) ==
    IF s.returned THEN s
    ELSE LET c == Call(s, "record")
         IN  IF s.image_num + 1 > Len(s.framebuffers) THEN Panic(c, "IndexPanic")
             ELSE IF bd = "Err" THEN Panic(c, "RecordPanic")
             ELSE [c EXCEPT !.last_record =
                      [framebuffer |-> s.framebuffers[s.image_num + 1],
                       swapchain_gen |-> s.swapchain.gen,
                       image_num |-> s.image_num,
                       viewport |-> s.viewport]]

\* The Ok arm taking a presented frame for a fresh swapchain.
flush_ok_cleared(f, joined) ==
    [f EXCEPT !.previous_frame_end = << FenceFuture(joined) >>,
              !.recreate_swapchain = FALSE,
              !.outcome = "Submitted"]

\* Ok(future) => { previous_frame_end = Some(future.boxed()); }
flush_ok(f, joined) ==
    [f EXCEPT !.previous_frame_end = << FenceFuture(joined) >>,
              !.outcome = "Submitted"]

\* The FlushError::OutOfDate arm without the flag.
flush_out_of_date_unflagged(f) ==
    [f EXCEPT !.previous_frame_end = << now >>,
              !.outcome = "FlushOutOfDate"]

\* Err(FlushError::OutOfDate) => { recreate_swapchain = true;
\*                                 previous_frame_end = Some(now(..).boxed()); }
flush_out_of_date(f) ==
    [f EXCEPT !.recreate_swapchain = TRUE,
              !.previous_frame_end = << now >>,
              !.outcome = "FlushOutOfDate"]

\* The Err(e) arm leaving the slot as take() left it.
flush_other_error_emptied(f) ==
    [f EXCEPT !.outcome = "FlushError"]

\* Err(e) => { println!(..); previous_frame_end = Some(now(..).boxed()); }
flush_other_error(f) ==
    [f EXCEPT !.previous_frame_end = << now >>,
              !.outcome = "FlushError"]

\* previous_frame_end.take().unwrap().join(..).then_execute(..).unwrap()
\*     .then_swapchain_present(..).then_signal_fence_and_flush(), and the match
\* on its result.
Submit(s, ex, fl) ==
    IF s.returned THEN s
    ELSE IF s.previous_frame_end = << >> THEN Panic(s, "UnwrapNone")
    ELSE LET taken == take(s.previous_frame_end)
             j == [Call(Call(s, "join"), "then_execute") EXCEPT
                      !.previous_frame_end = taken.slot,
                      !.last_submit = [joined |-> taken.value,
                                       acquire |-> s.acquire_future,
                                       image_num |-> s.image_num,
                                       swapchain_gen |-> s.swapchain.gen,
                                       result |-> IF ex = "Err" THEN "ExecError" ELSE fl]]
         IN  IF ex = "Err" THEN Panic(j, "ExecPanic")
             ELSE LET f == Call(Call(j, "then_swapchain_present"),
                                "then_signal_fence_and_flush")
                  IN  CASE fl = "Ok" -> flush_ok(f, taken.value)
                        [] fl = "OutOfDate" -> flush_out_of_date(f)
                        [] fl = "OtherError" -> flush_other_error(f)

\* ------------------------------------------------------------ the event loop
\* The closure leaving Exit behind after a tick as well.
closure_control_flow_tick_exits(ev) ==
    IF ev \in { "CloseRequested", "MainEventsCleared" } THEN "Exit" ELSE "Poll"

\* What the closure leaves in *control_flow for an event: Poll on entry, Exit
\* in the CloseRequested arm.
closure_control_flow(ev) ==
    IF ev = "CloseRequested" THEN "Exit" ELSE "Poll"

\* event_loop.run: ControlFlow::Exit is sticky.  Once the loop's control flow is
\* Exit the closure is handed a scratch value and what it writes is dropped.
run_control_flow(ev) ==
    IF control_flow = "Exit" THEN "Exit" ELSE closure_control_flow(ev)

\* The operations a submission chains after the join, in the order chained,
\* with present chained first.
future_chain_present_first == << "then_swapchain_present", "then_execute" >>

\* .then_execute(..).then_swapchain_present(..): the operations a submission
\* chains after the join, in the order chained.  The fence is signalled when
\* the last of them is done.
future_chain == << "then_execute", "then_swapchain_present" >>

\* No submission has reached the queue; `pending` is the queue position of the
\* submission whose fence future is in previous_frame_end, 0 for now().
IdleGpu == [subs |-> << >>, pending |-> 0]

Init ==
    /\ control_flow = "Poll"
    /\ status = "running"
    /\ phase = "events"
    /\ inner_size \in Extents \ { <<0, 0>> }
    /\ \E n \in ImageCounts :
          swapchain = [gen |-> 0, extent |-> inner_size, count |-> n]
    /\ LET setup == window_size_dependent_setup(Images(swapchain), InitialViewport)
       IN  /\ framebuffers = setup.framebuffers
           /\ viewport = setup.viewport
    /\ recreate_swapchain = FALSE
    /\ previous_frame_end = << now >>
    /\ calls = << >>
    /\ outcome = "None"
    /\ last_recreate = NoRecreate
    /\ last_acquire = NoAcquire
    /\ last_record = NoRecord
    /\ last_submit = NoSubmit
    /\ gpu = IdleGpu

\* Event::WindowEvent { event: WindowEvent::CloseRequested, .. }
CloseRequested ==
    /\ status = "running" /\ phase = "events"
    /\ control_flow' = run_control_flow("CloseRequested")
    /\ calls' = << >>
    /\ UNCHANGED << status, phase, inner_size, swapchain, framebuffers, viewport,
                    recreate_swapchain, previous_frame_end, outcome,
                    last_recreate, last_acquire, last_record, last_submit >>

\* Event::WindowEvent { event: WindowEvent::Resized(_), .. }: the window has a
\* new drawable size, which the closure does not read from the event.
Resized ==
    /\ status = "running" /\ phase = "events"
    /\ \E e \in Extents : inner_size' = e
    /\ recreate_swapchain' = TRUE
    /\ control_flow' = run_control_flow("Resized")
    /\ calls' = << >>
    /\ UNCHANGED << status, phase, swapchain, framebuffers, viewport,
                    previous_frame_end, outcome, last_recreate, last_acquire,
                    last_record, last_submit >>

\* _ => (): any other event delivered before MainEventsCleared.
OtherEvent ==
    /\ status = "running" /\ phase = "events"
    /\ control_flow' = run_control_flow("Other")
    /\ calls' = << >>
    /\ UNCHANGED << status, phase, inner_size, swapchain, framebuffers, viewport,
                    recreate_swapchain, previous_frame_end, outcome,
                    last_recreate, last_acquire, last_record, last_submit >>

\* The captured variables and the process after an invocation that ended as t.
Leave(t) ==
    /\ swapchain' = t.swapchain
    /\ framebuffers' = t.framebuffers
    /\ viewport' = t.viewport
    /\ recreate_swapchain' = t.recreate_swapchain
    /\ previous_frame_end' = t.previous_frame_end
    /\ calls' = t.calls
    /\ outcome' = t.outcome
    /\ last_recreate' = t.last_recreate
    /\ last_acquire' = t.last_acquire
    /\ last_record' = t.last_record
    /\ last_submit' = t.last_submit
    /\ status' = IF t.panicked THEN "panicked" ELSE status
    /\ control_flow' = IF t.panicked THEN control_flow
                       ELSE run_control_flow("MainEventsCleared")

\* The results of recording, then_execute and the flush that differ in effect:
\* a failed unwrap ends the tick before the later calls are made.
SubmitResults ==
    { << "Err", "Ok", "Ok" >>, << "Ok", "Err", "Ok" >> }
        \cup { << "Ok", "Ok", fl >> : fl \in FlushResults }

\* The tick from acquire_next_image on, for a tick that got past the recreate
\* branch as `recreated`.
FromAcquire(recreated) ==
    \E aq \in AcquireResults, suboptimal \in BOOLEAN,
       \* the index of an image of the swapchain acquired from
       i \in 0..(recreated.swapchain.count - 1) :
       LET acquired == Acquire(recreated, aq, i, suboptimal)
       IN  IF acquired.returned THEN Leave(acquired)
           ELSE \E r \in SubmitResults :
                   /\ r[3] = "Ok" => Head(previous_frame_end).id < MaxSubmits
                   /\ Leave(Submit(Record(acquired, r[1]), r[2], r[3]))

\* Event::MainEventsCleared: one tick of the frame loop.  The results of the
\* external calls are chosen as the tick reaches them.
MainEventsCleared ==
    /\ status = "running" /\ phase = "events"
    /\ LET cleaned == CleanupFinished(Captured)
       IN  IF cleaned.returned THEN Leave(cleaned)
           ELSE IF ~recreate_swapchain THEN FromAcquire(cleaned)
           ELSE \E rc \in RecreateResults, n \in ImageCounts :
                   LET recreated == Recreate(cleaned, rc, n)
                   IN  \* a swapchain is never created with a zero extent
                       /\ rc = "Ok" => (inner_size # <<0, 0>> /\ swapchain.gen < MaxGen)
                       /\ IF recreated.returned THEN Leave(recreated)
                          ELSE FromAcquire(recreated)
    /\ phase' = "cleared"
    /\ UNCHANGED inner_size

\* The end of a batch: RedrawEventsCleared goes to the closure (the `_` arm),
\* then the loop reads the control flow and, on Exit, delivers LoopDestroyed
\* and ends the process.
BatchEnd ==
    /\ status = "running" /\ phase = "cleared"
    /\ control_flow' = run_control_flow("RedrawEventsCleared")
    /\ status' = IF control_flow' = "Exit" THEN "exited" ELSE "running"
    /\ phase' = "events"
    /\ calls' = << >>
    /\ UNCHANGED << inner_size, swapchain, framebuffers, viewport,
                    recreate_swapchain, previous_frame_end, outcome,
                    last_recreate, last_acquire, last_record, last_submit >>

\* The frame loop with the results of the GPU calls drawn freely: the queue
\* itself is left out.
Next ==
    \/ CloseRequested /\ UNCHANGED gpu
    \/ Resized /\ UNCHANGED gpu
    \/ OtherEvent /\ UNCHANGED gpu
    \/ MainEventsCleared /\ UNCHANGED gpu
    \/ BatchEnd /\ UNCHANGED gpu

Spec == Init /\ [][Next]_vars

\* The delivery of MainEventsCleared to a running process: the one step that
\* ends the events of a batch.  Some tick can always be taken then, whatever
\* the external calls return.
TickDelivered ==
    /\ status = "running" /\ phase = "events"
    /\ phase' = "cleared"

\* ControlFlow::Poll: the event loop keeps delivering batches, so a tick that
\* can run does run, and so does the end of its batch.
LiveSpec ==
    /\ Init
    /\ [][Next]_vars
    /\ WF_phase(TickDelivered)
    /\ WF_vars(BatchEnd /\ UNCHANGED gpu)

\* ------------------------------------------------------------------ the GPU
\* The program's variables, which the GPU does not touch.
program == << control_flow, status, phase, inner_size, swapchain, framebuffers,
              viewport, recreate_swapchain, previous_frame_end, calls, outcome,
              last_recreate, last_acquire, last_record, last_submit >>

\* The future at queue position k is satisfied: now() at 0, else the fence of
\* the k-th submission, signalled when its whole chain is done.
Signalled(q, k) ==
    IF k = 0 THEN TRUE ELSE q.subs[k].done = Len(q.subs[k].chain)

\* then_signal_fence_and_flush: a flush that succeeds puts the submission on
\* the queue.  It waits for the future it joined on (`wait_prev`: the pending
\* submission, or nothing for now()) and for the acquire future (`ready`), and
\* runs its chain in order.  `prev` notes the submission that was pending when
\* the tick began.  A flush that fails queues nothing.
Flushed(q, joined, tick_outcome) ==
    CASE tick_outcome = "Submitted" ->
            [subs |-> Append(q.subs,
                             [wait_prev |-> IF joined.kind = "now" THEN 0
                                            ELSE q.pending,
                              prev |-> q.pending,
                              ready |-> FALSE,
                              chain |-> future_chain,
                              done |-> 0,
                              running |-> FALSE]),
             pending |-> Len(q.subs) + 1]
      [] tick_outcome \in { "FlushOutOfDate", "FlushError" } ->
            [q EXCEPT !.pending = 0]
      [] OTHER -> q

\* One tick of the frame loop with the queue behind it.  The platform keeps
\* giving the minimum number of images.
GpuTick ==
    /\ MainEventsCleared
    /\ swapchain'.count = MinImageCount
    /\ outcome' = "Submitted" => Len(gpu.subs) < MaxQueued
    /\ gpu' = Flushed(gpu, last_submit'.joined, outcome')

\* The acquired image becomes ready: the acquire future is satisfied.
ImageReady(k) ==
    /\ ~gpu.subs[k].ready
    /\ gpu' = [gpu EXCEPT !.subs[k].ready = TRUE]
    /\ UNCHANGED program

\* The queue starts the next operation of the k-th submission: the first one
\* once everything the join waits for is satisfied, a later one once the
\* operation chained before it is done.
OperationStart(k) ==
    LET sub == gpu.subs[k]
    IN  /\ ~sub.running
        /\ sub.done < Len(sub.chain)
        /\ sub.done = 0 =>
              /\ sub.ready
              /\ Signalled(gpu, sub.wait_prev)
        /\ gpu' = [gpu EXCEPT !.subs[k].running = TRUE]
        /\ UNCHANGED program

\* The running operation of the k-th submission completes.
OperationEnd(k) ==
    /\ gpu.subs[k].running
    /\ gpu' = [gpu EXCEPT !.subs[k].running = FALSE, !.subs[k].done = @ + 1]
    /\ UNCHANGED program

\* The frame loop and the GPU, which runs on its own beside the ticks.
GpuNext ==
    \/ GpuTick
    \/ BatchEnd /\ UNCHANGED gpu
    \/ \E k \in DOMAIN gpu.subs : ImageReady(k)
    \/ \E k \in DOMAIN gpu.subs : OperationStart(k)
    \/ \E k \in DOMAIN gpu.subs : OperationEnd(k)

\* The queue is followed from one start: an 800x600 window, the minimum images.
GpuInit ==
    /\ Init
    /\ inner_size = <<800, 600>>
    /\ swapchain.count = MinImageCount

GpuSpec == GpuInit /\ [][GpuNext]_vars

\* ------------------------------------------------------------- properties
\* A step that is one tick: the closure handling Event::MainEventsCleared.
TickStep == phase = "events" /\ phase' = "cleared"

\* The state a tick has just left.
AfterTick == phase = "cleared"

Made(cs, name) == \E k \in DOMAIN cs : cs[k] = name

\* `first` is called, and no call of `second` comes before it.
Before(cs, first, second) ==
    \E k \in DOMAIN cs :
        /\ cs[k] = first
        /\ \A m \in 1..k : cs[m] # second

SubmitCalls == { "then_execute", "then_swapchain_present",
                 "then_signal_fence_and_flush" }

NoSubmitNoPresent(cs) == \A k \in DOMAIN cs : cs[k] \notin SubmitCalls

\* C1 (single-flight): the frame loop holds at most one future at any time, and
\* a tick that submits joins on exactly the future the previous tick left in
\* previous_frame_end; a successful submission leaves a new future, chained on
\* the joined one, and never the joined one again.
C1_SingleFlight ==
    [][ /\ Len(previous_frame_end') <= 1
        /\ (TickStep /\ Made(calls', "join")) =>
              /\ Len(previous_frame_end) = 1
              /\ last_submit'.joined = Head(previous_frame_end)
              /\ outcome' = "Submitted" =>
                    /\ previous_frame_end' = << FenceFuture(Head(previous_frame_end)) >>
                    /\ previous_frame_end' # previous_frame_end
      ]_vars

\* C1 witness: a tick has submitted after joining on the fence future of the
\* tick before it.
C1_Witness ==
    /\ AfterTick
    /\ outcome = "Submitted"
    /\ last_submit.joined.kind = "fence"

\* C2 (resource coherence): every framebuffer in use is built from an image of
\* the current swapchain, one per image, and the framebuffer a tick records
\* against belongs to the swapchain generation that is current at the recording.
C2_ResourceCoherence ==
    /\ Len(framebuffers) = swapchain.count
    /\ \A k \in DOMAIN framebuffers :
          framebuffers[k].attachment = Images(swapchain)[k]
    /\ Made(calls, "record") /\ outcome \notin { "IndexPanic", "RecordPanic" } =>
          /\ last_record.swapchain_gen = swapchain.gen
          /\ last_record.framebuffer.attachment.gen = swapchain.gen

\* C2 witness: a tick has recorded commands after the swapchain was recreated.
C2_Witness ==
    /\ AfterTick
    /\ Made(calls, "record")
    /\ last_record.swapchain_gen >= 1
    /\ last_record.framebuffer.attachment.gen = last_record.swapchain_gen

\* C3 (OutOfDate recovery): a tick whose acquire_next_image returns OutOfDate
\* makes no submit and no present call, leaves the resize flag set and the
\* process running; the next tick calls recreate before any acquire.
C3_OutOfDateRecovery ==
    [][ /\ (TickStep /\ last_acquire'.result = "OutOfDate") =>
              /\ NoSubmitNoPresent(calls')
              /\ recreate_swapchain'
              /\ status' = "running"
        /\ (TickStep /\ last_acquire.result = "OutOfDate") =>
              Before(calls', "recreate", "acquire_next_image")
      ]_vars

\* C3 witness: a tick has ended on OutOfDate from acquire_next_image.
C3_Witness ==
    /\ AfterTick
    /\ last_acquire.result = "OutOfDate"
    /\ outcome = "AcquireOutOfDate"

\* C4 (Flush recovery): after a tick whose flush fails with FlushError::OutOfDate
\* the pending future is the already-complete future, the resize flag is set
\* and the process has not died; the next tick gets past its cleanup.
C4_FlushRecovery ==
    [][ /\ (TickStep /\ last_submit'.result = "OutOfDate") =>
              /\ previous_frame_end' = << now >>
              /\ recreate_swapchain'
              /\ status' = "running"
        /\ (TickStep /\ last_submit.result = "OutOfDate") =>
              /\ Made(calls', "cleanup_finished")
              /\ Before(calls', "recreate", "acquire_next_image")
      ]_vars

\* C4 witness: a tick has ended on FlushError::OutOfDate.
C4_Witness ==
    /\ AfterTick
    /\ last_submit.result = "OutOfDate"
    /\ outcome = "FlushOutOfDate"

\* C5 (other submission errors are fatal): a tick whose submission fails with
\* anything but FlushError::OutOfDate ends the process.
C5_OtherSubmitErrorFatal ==
    (AfterTick /\ last_submit.result \in { "OtherError", "ExecError" }) =>
        status = "panicked"

\* C6 (close preemption): once the close request has been delivered the loop
\* makes no acquire, submit or present call.
C6_ClosePreemption ==
    (control_flow = "Exit" /\ AfterTick) =>
        /\ ~Made(calls, "acquire_next_image")
        /\ NoSubmitNoPresent(calls)

\* C7 (Exiting is terminal, entered only by close): the control flow never
\* leaves Exit, only the CloseRequested arm moves it there, the loop ends only
\* from Exit, and a tick ending on a recoverable error leaves the control flow
\* as it was and the process running.
C7_ExitingTerminal ==
    [][ /\ control_flow = "Exit" => control_flow' = "Exit"
        /\ control_flow' # control_flow => CloseRequested
        /\ (status' = "exited" /\ status # "exited") => control_flow = "Exit"
        /\ (TickStep /\ outcome' \in { "ExtentNotSupported", "AcquireOutOfDate",
                                       "FlushOutOfDate" }) =>
              /\ control_flow' = control_flow
              /\ status' = "running"
      ]_vars

\* C7 witness: a tick has been handled after the close request, and the control
\* flow is still Exit.
C7_Witness ==
    /\ AfterTick
    /\ control_flow = "Exit"
    /\ status = "running"
    /\ outcome \in { "ExtentNotSupported", "AcquireOutOfDate", "FlushOutOfDate" }

\* C8 (ExtentUnsupported skips the tick): a tick whose recreate fails with
\* ImageExtentNotSupported calls nothing after recreate, leaves the swapchain,
\* the framebuffers, the viewport and the pending future as they were, keeps
\* the resize flag set and the process running; the next tick calls recreate
\* again before any acquire.
C8_ExtentUnsupportedSkips ==
    [][ /\ (TickStep /\ outcome' = "ExtentNotSupported") =>
              /\ calls' = << "cleanup_finished", "recreate" >>
              /\ UNCHANGED << swapchain, framebuffers, viewport, previous_frame_end >>
              /\ recreate_swapchain'
              /\ status' = "running"
        /\ (TickStep /\ outcome = "ExtentNotSupported") =>
              Before(calls', "recreate", "acquire_next_image")
      ]_vars

\* C8 witness: a tick has been skipped on ImageExtentNotSupported.
C8_Witness ==
    /\ AfterTick
    /\ outcome = "ExtentNotSupported"
    /\ calls = << "cleanup_finished", "recreate" >>

\* C9 (resize before acquire): in a tick that starts with the resize flag set,
\* acquire_next_image is called only after recreate has succeeded and
\* window_size_dependent_setup has run, on the recreated swapchain; and no
\* acquire_next_image call is ever made while the flag is set.
C9_ResizeBeforeAcquire ==
    [][ /\ (TickStep /\ recreate_swapchain /\ Made(calls', "acquire_next_image")) =>
              /\ SubSeq(calls', 1, 4) = << "cleanup_finished", "recreate",
                                          "window_size_dependent_setup",
                                          "acquire_next_image" >>
              /\ last_acquire'.gen = swapchain.gen + 1
        /\ (TickStep /\ Made(calls', "acquire_next_image")) =>
              /\ ~last_acquire'.flagged
              /\ last_acquire'.gen = swapchain'.gen
      ]_vars

\* C9 witness: a tick that started with the flag set has recreated and then
\* acquired.
C9_Witness ==
    /\ AfterTick
    /\ Made(calls, "recreate")
    /\ Made(calls, "acquire_next_image")
    /\ last_acquire.gen = swapchain.gen

\* C10 (suboptimal acquire): a tick whose acquire succeeds with suboptimal set
\* goes on to record and, unless recording or then_execute panics, to submit
\* and present on the swapchain it acquired from, leaves a future in
\* previous_frame_end (the new fence future when the flush succeeds) and the
\* resize flag set; the next tick calls recreate before any acquire.
C10_SuboptimalAcquire ==
    [][ /\ (TickStep /\ last_acquire'.suboptimal) =>
              /\ Made(calls', "record")
              /\ outcome' \notin { "IndexPanic", "RecordPanic" } =>
                    /\ last_record'.swapchain_gen = last_acquire'.gen
                    /\ Made(calls', "then_execute")
              /\ status' = "running" =>
                    /\ SubmitCalls \subseteq { calls'[k] : k \in DOMAIN calls' }
                    /\ last_submit'.swapchain_gen = last_acquire'.gen
                    /\ Len(previous_frame_end') = 1
                    /\ recreate_swapchain'
              /\ last_submit'.result = "Ok" =>
                    previous_frame_end' = << FenceFuture(Head(previous_frame_end)) >>
        /\ (TickStep /\ last_acquire.suboptimal) =>
              Before(calls', "recreate", "acquire_next_image")
      ]_vars

\* C10 witness: a tick with a suboptimal acquire has submitted and stored the
\* new fence future, with the resize flag set.
C10_Witness ==
    /\ AfterTick
    /\ last_acquire.suboptimal
    /\ outcome = "Submitted"
    /\ previous_frame_end[1].kind = "fence"
    /\ recreate_swapchain

\* A tick whose swapchain.recreate succeeded, with the rebuild that follows it.
RecreatedStep == TickStep /\ Made(calls', "window_size_dependent_setup")

FrameTargetExtents(fbs) == [k \in DOMAIN fbs |-> fbs[k].attachment.extent]

FullCycle ==
    << "cleanup_finished", "acquire_next_image", "record", "join", "then_execute",
       "then_swapchain_present", "then_signal_fence_and_flush" >>

\* C12 (end-to-end scenario): a tick with no resize pending and no error makes
\* exactly one acquire-submit-present cycle on the unchanged swapchain, replaces
\* the pending future by exactly one new future and leaves the process running
\* (so five such ticks from 800x600 with 2 images give five cycles); a tick
\* after Resized with a 400x300 window whose recreate succeeds has a 400x300
\* swapchain, one framebuffer per image and viewport.dimensions [400, 300]
\* before it acquires, and acquires from the new swapchain.
C12_EndToEnd ==
    [][ /\ (TickStep /\ ~recreate_swapchain /\ outcome' = "Submitted") =>
              /\ calls' = FullCycle
              /\ previous_frame_end' = << FenceFuture(Head(previous_frame_end)) >>
              /\ previous_frame_end' # previous_frame_end
              /\ status' = "running"
              /\ UNCHANGED << swapchain, framebuffers, viewport >>
        /\ (TickStep /\ recreate_swapchain /\ inner_size = <<400, 300>>
                     /\ last_recreate'.result = "Ok") =>
              /\ swapchain'.extent = <<400, 300>>
              /\ Len(framebuffers') = swapchain'.count
              /\ viewport'.dimensions = <<400, 300>>
              /\ SubSeq(calls', 1, 3) = << "cleanup_finished", "recreate",
                                          "window_size_dependent_setup" >>
              /\ calls'[4] = "acquire_next_image"
              /\ last_acquire'.gen = swapchain'.gen
      ]_vars

\* C12 witness: five error-free cycles in a row on the initial 800x600
\* swapchain of 2 images, then the tick after Resized(400x300): it has
\* recreated to 400x300 with 2 framebuffers, set the viewport and then acquired
\* and submitted, joining on the fifth future.
C12_Witness ==
    /\ AfterTick
    /\ last_recreate = [result |-> "Ok", extent |-> <<800, 600>>, count |-> 2]
    /\ swapchain = [gen |-> 1, extent |-> <<400, 300>>, count |-> 2]
    /\ Len(framebuffers) = 2
    /\ viewport.dimensions = <<400, 300>>
    /\ last_submit.joined = [kind |-> "fence", id |-> 5]
    /\ outcome = "Submitted"

\* C13 (fatal surface errors): a tick whose recreate fails with anything but
\* ImageExtentNotSupported, or whose acquire fails with anything but OutOfDate,
\* panics at that call: nothing is called after it, so no submit and no
\* present, the captured state is left as the call found it (no flag is set,
\* no future is reset), and the process takes no further step.
C13_FatalSurfaceErrors ==
    [][ /\ (TickStep /\ last_recreate'.result = "OtherError") =>
              /\ status' = "panicked"
              /\ calls' = << "cleanup_finished", "recreate" >>
              /\ UNCHANGED << swapchain, framebuffers, viewport,
                              recreate_swapchain, previous_frame_end >>
        /\ (TickStep /\ last_acquire'.result = "OtherError") =>
              /\ status' = "panicked"
              /\ calls'[Len(calls')] = "acquire_next_image"
              /\ NoSubmitNoPresent(calls')
              /\ ~recreate_swapchain'
              /\ previous_frame_end' = previous_frame_end
        /\ status = "panicked" => UNCHANGED vars
      ]_vars

\* C13 witness: a tick has recreated the swapchain and then panicked on an
\* acquire error other than OutOfDate.
C13_Witness ==
    /\ AfterTick
    /\ status = "panicked"
    /\ outcome = "AcquirePanic"
    /\ last_recreate.result = "Ok"
    /\ last_acquire.result = "OtherError"

\* C15 (viewport tracks the surface): viewport.dimensions is the extent of the
\* current swapchain's images, in every state and in the viewport every
\* recording reads; origin and depth_range are the initial ones.
C15_ViewportTracksSurface ==
    /\ viewport.dimensions = swapchain.extent
    /\ viewport.origin = InitialViewport.origin
    /\ viewport.depth_range = InitialViewport.depth_range
    /\ last_record # NoRecord =>
          /\ last_record.viewport.dimensions = last_record.framebuffer.attachment.extent
          /\ last_record.viewport.dimensions = swapchain.extent
          /\ last_record.viewport.origin = InitialViewport.origin
          /\ last_record.viewport.depth_range = InitialViewport.depth_range

\* C15 witness: a tick has recreated the swapchain to another extent and
\* recorded with the viewport of the new extent.
C15_Witness ==
    /\ AfterTick
    /\ last_recreate.result = "Ok"
    /\ last_recreate.extent # swapchain.extent
    /\ last_record # NoRecord
    /\ last_record.viewport.dimensions = swapchain.extent

\* C17 (pending slot occupied): while the process runs previous_frame_end holds
\* a future, and no tick ever finds the slot empty at its cleanup or its take.
C17_SlotOccupied ==
    /\ status = "running" => Len(previous_frame_end) = 1
    /\ outcome # "UnwrapNone"

\* C17 witness: a tick has ended on a flush error other than OutOfDate and has
\* left the already-complete future in the slot.
C17_Witness ==
    /\ AfterTick
    /\ status = "running"
    /\ last_submit.result = "OtherError"
    /\ previous_frame_end = << now >>

\* C18 (image index valid): the framebuffers are as many as the images of the
\* current swapchain, no recording ever indexes past them, and the framebuffer
\* recorded against is the one of the acquired index.
C18_ImageIndexValid ==
    /\ Len(framebuffers) = swapchain.count
    /\ outcome # "IndexPanic"
    /\ last_record # NoRecord =>
          /\ last_record.image_num < Len(framebuffers)
          /\ last_record.framebuffer = framebuffers[last_record.image_num + 1]
          /\ last_record.framebuffer.attachment.index = last_record.image_num

\* C18 witness: a recreation has raised the image count from 2 to 3 and the
\* tick has recorded against the framebuffer of index 2.
C18_Witness ==
    /\ AfterTick
    /\ last_recreate.result = "Ok"
    /\ last_recreate.count = 2
    /\ swapchain.count = 3
    /\ last_record # NoRecord
    /\ last_record.image_num = 2

\* C19 (resize request never lost): the resize flag goes from set to clear only
\* in a tick whose recreate succeeded and whose framebuffers were rebuilt from
\* the new swapchain; and a flag set inside a tick (suboptimal or OutOfDate
\* acquire, OutOfDate flush) is still set when the tick is over.
C19_ResizeNeverLost ==
    [][ /\ (recreate_swapchain /\ ~recreate_swapchain') =>
              /\ RecreatedStep
              /\ last_recreate'.result = "Ok"
              /\ swapchain'.gen = swapchain.gen + 1
              /\ \A k \in DOMAIN framebuffers' :
                    framebuffers'[k].attachment = Images(swapchain')[k]
        /\ (TickStep /\ status' = "running"
                     /\ \/ last_acquire'.suboptimal
                        \/ last_acquire'.result = "OutOfDate"
                        \/ last_submit'.result = "OutOfDate") =>
              recreate_swapchain'
      ]_vars

\* C19 witness: a flag that was set has been cleared by a tick that recreated
\* the swapchain and rebuilt the framebuffers.
C19_Witness ==
    /\ AfterTick
    /\ ~recreate_swapchain
    /\ last_recreate.result = "Ok"
    /\ swapchain.gen >= 1

\* The operation `name` of a submission has started / has completed.
Position(sub, name) == CHOOSE p \in DOMAIN sub.chain : sub.chain[p] = name
Started(sub, name) ==
    \/ sub.done >= Position(sub, name)
    \/ sub.done = Position(sub, name) - 1 /\ sub.running
Completed(sub, name) == sub.done >= Position(sub, name)

\* C14 (GPU ordering): on the queue, the command execution of a submission has
\* started only if the acquired image is ready and the future that was pending
\* when its tick began is satisfied (always so for now(), after a reset), and
\* its presentation has started only if its command execution has completed.
C14_GpuOrdering ==
    \A k \in DOMAIN gpu.subs :
        LET sub == gpu.subs[k]
        IN  /\ Started(sub, "then_execute") =>
                  /\ sub.ready
                  /\ Signalled(gpu, sub.prev)
            /\ Started(sub, "then_swapchain_present") =>
                  Completed(sub, "then_execute")

\* C14 witness: a submission that joined on the fence of the one before it is
\* presenting while a later tick has already run.
C14_Witness ==
    /\ Len(gpu.subs) = 2
    /\ gpu.subs[2].prev = 1
    /\ gpu.subs[2].running
    /\ Started(gpu.subs[2], "then_swapchain_present")
    /\ gpu.pending = 0

\* The tick just taken recreated the swapchain: the framebuffers were rebuilt
\* for it and the flag was clear when the tick went on to acquire.
Recreated ==
    /\ AfterTick
    /\ last_recreate.result = "Ok"
    /\ Len(framebuffers) = swapchain.count
    /\ last_acquire.result # "None" /\ ~last_acquire.flagged

\* C16 (resize progress): with ticks kept coming, if no close request arrives,
\* no panic occurs and the ticks do not end on ImageExtentNotSupported for ever,
\* then whenever the resize flag is set a later tick recreates the swapchain,
\* rebuilds the framebuffers and clears the flag; and a tick whose recreate
\* does not succeed makes no acquire, submit or present call and leaves the
\* flag set, so while recreate keeps failing no frame is submitted.
C16_ResizeProgress ==
    /\ ( /\ [](status = "running" /\ control_flow = "Poll")
         /\ []<>(outcome # "ExtentNotSupported") )
          => (recreate_swapchain ~> Recreated)
    /\ [][ /\ (TickStep /\ recreate_swapchain /\ last_recreate'.result # "Ok") =>
                 /\ NoSubmitNoPresent(calls')
                 /\ ~Made(calls', "acquire_next_image")
                 /\ recreate_swapchain'
           /\ (TickStep /\ last_recreate'.result = "Ok") =>
                 /\ Len(framebuffers') = swapchain'.count
                 /\ ~last_acquire'.flagged
         ]_vars

\* C16 witness: after a Resized to a new size, a tick has recreated the
\* swapchain at the window's size, cleared the flag and submitted a frame.
C16_Witness ==
    /\ AfterTick
    /\ status = "running"
    /\ last_recreate.result = "Ok"
    /\ last_recreate.extent # swapchain.extent
    /\ swapchain.extent = inner_size
    /\ ~recreate_swapchain
    /\ outcome = "Submitted"

====
